---- MODULE Spec2Model ----
(***************************************************************************)
(* A model of LinkedList<T> (src/LinkedList.hpp): a singly linked list     *)
(* with raw head and tail pointers and nodes allocated with new and        *)
(* released with delete.                                                   *)
(*                                                                         *)
(* The heap is a function from the addresses currently allocated to the    *)
(* Node stored there.  An address outside DOMAIN heap that a pointer       *)
(* still holds is a released node: reading or writing through it, or       *)
(* deleting it again, is undefined behaviour, modelled as a choice         *)
(* between the program being killed and the program going on with an       *)
(* arbitrary value read.  operator new may hand out any address that is    *)
(* not allocated, a released one included.                                 *)
(*                                                                         *)
(* Straight-line handlers are one action; each loop (popTail's scan,       *)
(* getLength, clear) takes one action per evaluation of its condition,     *)
(* with pc naming the handler that is running.                             *)
(***************************************************************************)
EXTENDS Integers, Sequences, FiniteSets, TLC

\* Number of addresses the allocator can hand out.
MaxNodes == 3

\* Largest count getLength's loop is followed to: above every list the heap
\* can hold, so only a walk that left the list is cut.
MaxLength == MaxNodes + 2

\* nullptr
NULL == 0

Nodes == 1..MaxNodes

Ptr == Nodes \cup {NULL}

\* The element type T.
Values == {1, 2}

\* std::optional<T>: the empty sequence is std::nullopt, <<v>> holds v.
nullopt == <<>>

VARIABLES
    head,       \* LinkedList::head
    tail,       \* LinkedList::tail
    heap,       \* allocated address -> Node [data, next]
    pc,         \* "idle", the handler whose loop is running, "crashed", "destroyed"
    node,       \* the local `node` of popTail and getLength
    length,     \* the local `length` of getLength
    popData,    \* the local `popData` of popTail, as an optional
    ret,        \* the last handler that returned and what it returned
    fault,      \* the undefined behaviour of the last step, or "none"
    abs,        \* the sequence of elements the calls so far leave in the list
    scen,       \* the calls so far, while they are pushes at one end then popHeads
    snap,       \* the list before the last push, while only its pop has followed
    drain       \* the calls so far, while they are pushTails, popTails, popHeads

vars ==
    <<head, tail, heap, pc, node, length, popData, ret, fault, abs, scen, snap, drain>>

----------------------------------------------------------------------------
\* Node(const T& val) : data(val), next(nullptr)
Node(val) == [data |-> val, next |-> NULL]

\* new Node(val) placed at address a.
New(h, a, val) == [n \in DOMAIN h \cup {a} |-> IF n = a THEN Node(val) ELSE h[n]]

\* delete p, for an allocated p.
Delete(h, p) == [n \in DOMAIN h \ {p} |-> h[n]]

\* p->next = q, for an allocated p.
SetNext(h, p, q) == [h EXCEPT ![p] = [data |-> h[p].data, next |-> q]]

\* A pointer to a node that has been deleted.
Released(p) == p # NULL /\ p \notin DOMAIN heap

\* isEmpty()
isEmpty == head = NULL

Returned(op, val) == [op |-> op, val |-> val]

\* A call whose loop is running has returned nothing yet.
Pending == Returned("pending", nullopt)

\* History of a run that is not n pushes at one end followed by popHeads.
NoScen == [kind |-> "mixed", in |-> <<>>, out |-> <<>>]

\* The run so far extended by a push of val at the end `kind` names.
ScenPush(kind, val) ==
    IF scen.kind \in {"none", kind} /\ scen.out = <<>>
    THEN [kind |-> kind, in |-> Append(scen.in, val), out |-> <<>>]
    ELSE NoScen

\* The run so far extended by a popHead that returned r; one popHead past
\* the pushed values is kept.
ScenPopHead(r) ==
    IF scen.kind # "mixed" /\ Len(scen.out) <= Len(scen.in)
    THEN [scen EXCEPT !.out = Append(@, r)]
    ELSE NoScen

NoSnap == [op |-> "none", popped |-> FALSE]

\* The list as the push `op` of val finds it.
SnapPush(op, val) ==
    [op |-> op, popped |-> FALSE, val |-> val, head |-> head, tail |-> tail, heap |-> heap]

\* The pop at the end of push `op` is called.
SnapPop(op) ==
    IF snap.op = op /\ ~snap.popped THEN [snap EXCEPT !.popped = TRUE] ELSE NoSnap

\* History of a run that is not pushTails, then popTails, then popHeads.
NoDrain == [on |-> FALSE, in |-> <<>>, tails |-> <<>>, heads |-> <<>>]

\* The run so far extended by a pushTail of val.
DrainPushTail(val) ==
    IF drain.on /\ drain.tails = <<>> /\ drain.heads = <<>>
    THEN [drain EXCEPT !.in = Append(@, val)]
    ELSE NoDrain

\* The run so far extended by a popTail that returned r; no more popTails
\* than pushTails are kept.
DrainPopTail(r) ==
    IF drain.on /\ drain.heads = <<>> /\ Len(drain.tails) < Len(drain.in)
    THEN [drain EXCEPT !.tails = Append(@, r)]
    ELSE NoDrain

\* The run so far extended by a popHead that returned r; one popHead past
\* the values the popTails left is kept.
DrainPopHead(r) ==
    IF drain.on /\ Len(drain.heads) <= Len(drain.in) - Len(drain.tails)
    THEN [drain EXCEPT !.heads = Append(@, r)]
    ELSE NoDrain

\* A call can be made: no handler is running, and the program has not left
\* defined behaviour.  The call in which a released node is first touched
\* is followed to each of its outcomes and no further.
Callable == pc = "idle" /\ fault = "none"

\* The first undefined behaviour of the running call.
Faulted(f) == IF fault # "none" THEN fault ELSE f

\* The program is killed by the undefined behaviour `what`.
Crash(what) ==
    /\ pc' = "crashed"
    /\ fault' = Faulted(what)
    /\ UNCHANGED <<head, tail, heap, node, length, popData, ret, abs>>

----------------------------------------------------------------------------
Init ==
    /\ head = NULL
    /\ tail = NULL
    /\ heap = <<>>
    /\ pc = "idle"
    /\ node = NULL
    /\ length = 0
    /\ popData = nullopt
    /\ ret = Returned("LinkedList", nullopt)
    /\ fault = "none"
    /\ abs = <<>>
    /\ scen = [kind |-> "none", in |-> <<>>, out |-> <<>>]
    /\ snap = NoSnap
    /\ drain = [on |-> TRUE, in |-> <<>>, tails |-> <<>>, heads |-> <<>>]

\* if (tail == nullptr) tail = head;   (the tail pushHead leaves)
PushHeadTail(newHead, oldTail) == IF oldTail = NULL THEN newHead ELSE oldTail

\* A pushHead that leaves the new node's next at nullptr.
PushHeadNodeUnlinked(h, a, val) == New(h, a, val)

\* Node<T>* node = new Node(val); node->next = head;
PushHeadNode(h, a, val) == SetNext(New(h, a, val), a, head)

pushHead(val) ==
    /\ Callable
    /\ \E a \in Nodes \ DOMAIN heap :
          /\ heap' = PushHeadNode(heap, a, val)
          /\ head' = a
          /\ tail' = PushHeadTail(a, tail)
    /\ ret' = Returned("pushHead", nullopt)
    /\ fault' = "none"
    /\ abs' = <<val>> \o abs
    /\ scen' = ScenPush("pushHead", val)
    /\ snap' = SnapPush("pushHead", val)
    /\ drain' = NoDrain
    /\ UNCHANGED <<pc, node, length, popData>>

\* if (tail == nullptr) head = tail = node;   (the head pushTail leaves)
PushTailHead(a, oldTail) == IF oldTail = NULL THEN a ELSE head

\* The node `tail->next = node` writes through: with no braces after the
\* if, the assignment runs on the empty list too, where tail is the new node.
PushTailLinked(a, oldTail) == IF oldTail = NULL THEN a ELSE oldTail

pushTail(val) ==
    /\ Callable
    /\ \E a \in Nodes \ DOMAIN heap :
          LET h == New(heap, a, val)
              t == PushTailLinked(a, tail)
          IN  \/ /\ t \in DOMAIN h
                 /\ heap' = SetNext(h, t, a)
                 /\ head' = PushTailHead(a, tail)
                 /\ tail' = a
                 /\ ret' = Returned("pushTail", nullopt)
                 /\ fault' = "none"
                 /\ abs' = Append(abs, val)
                 /\ scen' = ScenPush("pushTail", val)
                 /\ snap' = SnapPush("pushTail", val)
                 /\ drain' = DrainPushTail(val)
                 /\ UNCHANGED <<pc, node, length, popData>>
              \/ /\ t \notin DOMAIN h
                 /\ Crash("write to a released node")
                 /\ scen' = NoScen
                 /\ snap' = NoSnap
                 /\ drain' = NoDrain
              \/ /\ t \notin DOMAIN h
                 /\ heap' = h
                 /\ head' = PushTailHead(a, tail)
                 /\ tail' = a
                 /\ ret' = Returned("pushTail", nullopt)
                 /\ fault' = "write to a released node"
                 /\ abs' = Append(abs, val)
                 /\ scen' = ScenPush("pushTail", val)
                 /\ snap' = SnapPush("pushTail", val)
                 /\ drain' = DrainPushTail(val)
                 /\ UNCHANGED <<pc, node, length, popData>>

\* A popHead that leaves tail alone when the list becomes empty.
PopHeadTailKept(newHead, oldTail) == oldTail

\* if (head == nullptr) tail = nullptr;   (the tail popHead leaves)
PopHeadTail(newHead, oldTail) == IF newHead = NULL THEN NULL ELSE oldTail

AbsPopHead == IF abs = <<>> THEN abs ELSE Tail(abs)

AbsPopTail == IF abs = <<>> THEN abs ELSE SubSeq(abs, 1, Len(abs) - 1)

popHead ==
    /\ Callable
    /\ \/ /\ head = NULL
          /\ ret' = Returned("popHead", nullopt)
          /\ fault' = "none"
          /\ abs' = AbsPopHead
          /\ UNCHANGED <<head, tail, heap, pc, node, length, popData>>
       \/ /\ head \in DOMAIN heap
          /\ LET temp == heap[head].next
             IN  /\ ret' = Returned("popHead", <<heap[head].data>>)
                 /\ heap' = Delete(heap, head)
                 /\ head' = temp
                 /\ tail' = PopHeadTail(temp, tail)
          /\ fault' = "none"
          /\ abs' = AbsPopHead
          /\ UNCHANGED <<pc, node, length, popData>>
       \/ /\ Released(head)
          /\ Crash("read of a released node")
       \/ /\ Released(head)
          /\ \E d \in Values, temp \in Ptr :
                /\ ret' = Returned("popHead", <<d>>)
                /\ head' = temp
                /\ tail' = PopHeadTail(temp, tail)
          /\ fault' = "read of a released node"
          /\ abs' = AbsPopHead
          /\ UNCHANGED <<heap, pc, node, length, popData>>
    /\ scen' = IF pc' = "crashed" THEN scen ELSE ScenPopHead(ret'.val)
    /\ snap' = SnapPop("pushHead")
    /\ drain' = IF pc' = "crashed" THEN drain ELSE DrainPopHead(ret'.val)

\* popTail up to its loop: lines 42-51.
popTail ==
    /\ Callable
    /\ \/ /\ head = NULL
          /\ ret' = Returned("popTail", nullopt)
          /\ fault' = "none"
          /\ abs' = AbsPopTail
          /\ UNCHANGED <<head, tail, heap, pc, node, length, popData>>
       \/ /\ head # NULL
          /\ tail \in DOMAIN heap
          /\ head = tail
          /\ ret' = Returned("popTail", <<heap[tail].data>>)
          /\ heap' = Delete(heap, tail)
          /\ head' = NULL
          /\ tail' = NULL
          /\ fault' = "none"
          /\ abs' = AbsPopTail
          /\ UNCHANGED <<pc, node, length, popData>>
       \/ /\ head # NULL
          /\ tail \in DOMAIN heap
          /\ head # tail
          /\ popData' = <<heap[tail].data>>
          /\ node' = head
          /\ pc' = "popTail"
          /\ ret' = Pending
          /\ fault' = "none"
          /\ UNCHANGED <<head, tail, heap, length, abs>>
       \/ /\ head # NULL
          /\ tail \notin DOMAIN heap
          /\ Crash("read of a released node")
       \/ /\ head # NULL
          /\ Released(tail)
          /\ head = tail
          /\ \E d \in Values : ret' = Returned("popTail", <<d>>)
          /\ head' = NULL
          /\ tail' = NULL
          /\ fault' = "read of a released node"
          /\ abs' = AbsPopTail
          /\ UNCHANGED <<heap, pc, node, length, popData>>
       \/ /\ head # NULL
          /\ Released(tail)
          /\ head # tail
          /\ \E d \in Values : popData' = <<d>>
          /\ node' = head
          /\ pc' = "popTail"
          /\ ret' = Pending
          /\ fault' = "read of a released node"
          /\ UNCHANGED <<head, tail, heap, length, abs>>
    /\ scen' = NoScen
    /\ snap' = SnapPop("pushTail")
    /\ drain' = IF pc' = "idle" THEN DrainPopTail(ret'.val) ELSE drain

\* A popTail that leaves the new tail's next pointing at the deleted node.
PopTailUnlinkKeepsNext ==
    IF tail \in DOMAIN heap THEN Delete(heap, tail) ELSE heap

\* The heap after lines 55-57: delete tail; tail = node; tail->next = nullptr.
PopTailUnlink ==
    LET h == IF tail \in DOMAIN heap THEN Delete(heap, tail) ELSE heap
    IN  IF node \in DOMAIN h THEN SetNext(h, node, NULL) ELSE h

\* The undefined behaviour of lines 55-57, after `f` in the loop condition.
PopTailFault(f) ==
    IF f # "none" THEN f
    ELSE IF tail \notin DOMAIN heap THEN "delete of a released node"
    ELSE IF node \notin DOMAIN heap \ {tail} THEN "write to a released node"
    ELSE "none"

\* One evaluation of `node->next != tail` that read nx: line 53, or lines 55-58.
PopTailBody(nx, f) ==
    IF nx # tail
    THEN /\ node' = nx
         /\ fault' = Faulted(f)
         /\ UNCHANGED <<head, tail, heap, pc, length, popData, ret, abs, drain>>
    ELSE \/ /\ heap' = PopTailUnlink
            /\ tail' = node
            /\ ret' = Returned("popTail", popData)
            /\ fault' = Faulted(PopTailFault(f))
            /\ abs' = AbsPopTail
            /\ drain' = DrainPopTail(popData)
            /\ pc' = "idle"
            /\ node' = NULL
            /\ popData' = nullopt
            /\ UNCHANGED <<head, length>>
         \/ /\ PopTailFault(f) # "none"
            /\ Crash(PopTailFault(f))
            /\ UNCHANGED drain

\* while (node->next != tail)
popTailLoop ==
    /\ pc = "popTail"
    /\ \/ /\ node \in DOMAIN heap
          /\ PopTailBody(heap[node].next, "none")
       \/ /\ node \notin DOMAIN heap
          /\ Crash(IF node = NULL THEN "null dereference" ELSE "read of a released node")
          /\ UNCHANGED drain
       \/ /\ Released(node)
          /\ \E nx \in Ptr : PopTailBody(nx, "read of a released node")
    /\ UNCHANGED <<scen, snap>>

\* getLength up to its loop: lines 75-77.
getLength ==
    /\ Callable
    /\ fault' = "none"
    /\ IF isEmpty
       THEN /\ ret' = Returned("getLength", <<0>>)
            /\ UNCHANGED <<head, tail, heap, pc, node, length, popData, abs>>
       ELSE /\ node' = head
            /\ length' = 0
            /\ pc' = "getLength"
            /\ ret' = Pending
            /\ UNCHANGED <<head, tail, heap, popData, abs>>
    /\ scen' = NoScen
    /\ snap' = NoSnap
    /\ UNCHANGED drain

\* A getLength that stops at the last node instead of past it.
GetLengthDoneAtLast(p) == p = NULL \/ (p \in DOMAIN heap /\ heap[p].next = NULL)

\* while (node != nullptr)
GetLengthDone(p) == p = NULL

getLengthLoop ==
    /\ pc = "getLength"
    /\ \/ /\ GetLengthDone(node)
          /\ ret' = Returned("getLength", <<length>>)
          /\ pc' = "idle"
          /\ node' = NULL
          /\ length' = 0
          /\ fault' = fault
          /\ UNCHANGED <<head, tail, heap, popData, abs>>
       \/ /\ ~GetLengthDone(node)
          /\ node \in DOMAIN heap
          /\ length < MaxLength
          /\ node' = heap[node].next
          /\ length' = length + 1
          /\ fault' = fault
          /\ UNCHANGED <<head, tail, heap, pc, popData, ret, abs>>
       \/ /\ ~GetLengthDone(node)
          /\ node \notin DOMAIN heap
          /\ Crash(IF node = NULL THEN "null dereference" ELSE "read of a released node")
       \/ /\ ~GetLengthDone(node)
          /\ Released(node)
          /\ length < MaxLength
          /\ \E nx \in Ptr : node' = nx
          /\ length' = length + 1
          /\ fault' = Faulted("read of a released node")
          /\ UNCHANGED <<head, tail, heap, pc, popData, ret, abs>>
    /\ UNCHANGED <<scen, snap, drain>>

\* clear() is entered.
clear ==
    /\ Callable
    /\ pc' = "clear"
    /\ ret' = Pending
    /\ fault' = "none"
    /\ UNCHANGED <<head, tail, heap, node, length, popData, abs>>
    /\ scen' = NoScen
    /\ snap' = NoSnap
    /\ drain' = NoDrain

\* ~LinkedList() { clear(); }
Destroy ==
    /\ Callable
    /\ pc' = "~LinkedList"
    /\ ret' = Pending
    /\ fault' = "none"
    /\ UNCHANGED <<head, tail, heap, node, length, popData, abs>>
    /\ scen' = NoScen
    /\ snap' = NoSnap
    /\ drain' = NoDrain

\* while (head != nullptr) { ... } tail = nullptr;
clearLoop ==
    /\ pc \in {"clear", "~LinkedList"}
    /\ \/ /\ head = NULL
          /\ tail' = NULL
          /\ pc' = IF pc = "clear" THEN "idle" ELSE "destroyed"
          /\ ret' = Returned(pc, nullopt)
          /\ fault' = fault
          /\ abs' = <<>>
          /\ UNCHANGED <<head, heap, node, length, popData>>
       \/ /\ head \in DOMAIN heap
          /\ head' = heap[head].next
          /\ heap' = Delete(heap, head)
          /\ fault' = fault
          /\ UNCHANGED <<tail, pc, node, length, popData, ret, abs>>
       \/ /\ Released(head)
          /\ Crash("read of a released node")
       \/ /\ Released(head)
          /\ \E nx \in Ptr : head' = nx
          /\ fault' = Faulted("read of a released node")
          /\ UNCHANGED <<tail, heap, pc, node, length, popData, ret, abs>>
    /\ UNCHANGED <<scen, snap, drain>>

Next ==
    \/ \E val \in Values : pushHead(val)
    \/ \E val \in Values : pushTail(val)
    \/ popHead
    \/ popTail
    \/ popTailLoop
    \/ getLength
    \/ getLengthLoop
    \/ clear
    \/ clearLoop
    \/ Destroy

Spec == Init /\ [][Next]_vars

\* The callers that call pushTail only on a list that is not empty.
pushTailNonEmpty(val) == ~isEmpty /\ pushTail(val)

NextNonEmptyTail ==
    \/ \E val \in Values : pushHead(val)
    \/ \E val \in Values : pushTailNonEmpty(val)
    \/ popHead
    \/ popTail
    \/ popTailLoop
    \/ getLength
    \/ getLengthLoop
    \/ clear
    \/ clearLoop
    \/ Destroy

SpecNonEmptyTail == Init /\ [][NextNonEmptyTail]_vars

\* A call runs to completion without yielding: once a handler is entered
\* its loop keeps being evaluated.  Nothing obliges the caller to call.
FairSpec ==
    /\ Spec
    /\ WF_vars(popTailLoop)
    /\ WF_vars(getLengthLoop)
    /\ WF_vars(clearLoop)

----------------------------------------------------------------------------
\* The allocated nodes met from p by following next, at most k of them.
RECURSIVE Walk(_, _)
Walk(p, k) ==
    IF k = 0 \/ p \notin DOMAIN heap THEN <<>> ELSE <<p>> \o Walk(heap[p].next, k - 1)

IsPrefix(s, t) == Len(s) <= Len(t) /\ s = SubSeq(t, 1, Len(s))

Reverse(s) == [i \in 1..Len(s) |-> s[Len(s) + 1 - i]]

\* What popHead returns for a list holding s, until one call past its end.
Drained(s) == [i \in 1..Len(s) |-> <<s[i]>>] \o <<nullopt>>

\* C1: between calls, whenever the list is non-empty, following next from
\* head reaches tail, and tail's next is nullptr.
C1_ChainEndsAtTail ==
    (pc = "idle" /\ head # NULL) =>
        LET w == Walk(head, MaxNodes + 1)
        IN  /\ w # <<>>
            /\ w[Len(w)] = tail
            /\ heap[tail].next = NULL

\* C2: between calls, head is nullptr iff tail is nullptr iff the calls so
\* far leave no element in the list.
C2_EmptyIff ==
    pc = "idle" =>
        /\ (head = NULL) <=> (tail = NULL)
        /\ (head = NULL) <=> (abs = <<>>)

\* C3: after n pushTail calls on the empty list, popHead calls return the
\* pushed values in the order pushed, then std::nullopt.
C3_Fifo ==
    scen.kind \in {"none", "pushTail"} =>
        /\ pc # "crashed"
        /\ fault = "none"
        /\ IsPrefix(scen.out, Drained(scen.in))

\* C4: no call touches a released node or deletes one again, and the
\* destructor leaves no node allocated.
C4_ReleasedOnce ==
    /\ pc # "crashed"
    /\ fault = "none"
    /\ pc = "destroyed" => DOMAIN heap = {}

\* C5: getLength() returns 0 exactly when isEmpty() is true.
C5_EmptyIffLengthZero ==
    (pc = "idle" /\ ret.op = "getLength") => ((ret.val = <<0>>) <=> isEmpty)

\* C5 witness: getLength() has counted a list of two nodes.
C5_Witness ==
    /\ pc = "idle"
    /\ ret = Returned("getLength", <<2>>)
    /\ ~isEmpty
    /\ Len(abs) = 2

\* C6: popHead() or popTail() called on a list from which every pushed
\* element has been removed returns std::nullopt, touches no released node
\* and leaves head and tail nullptr.
C6_PopOnEmpty ==
    [][(Callable /\ abs = <<>> /\ (popHead \/ popTail)) =>
         /\ pc' = "idle"
         /\ fault' = "none"
         /\ ret'.val = nullopt
         /\ head' = NULL
         /\ tail' = NULL]_vars

\* C7: after n pushHead calls on the empty list, popHead calls return the
\* pushed values in the reverse of the order pushed, then std::nullopt.
C7_Lifo ==
    scen.kind \in {"none", "pushHead"} =>
        /\ pc # "crashed"
        /\ fault = "none"
        /\ IsPrefix(scen.out, Drained(Reverse(scen.in)))

\* C7 witness: three values were pushed at the head and four popHead calls
\* have returned.
C7_Witness ==
    /\ scen.kind = "pushHead"
    /\ Len(scen.in) = 3
    /\ Len(scen.out) = 4
    /\ scen.in[1] # scen.in[3]

\* C8: pushTail(x) followed at once by popTail() returns x and leaves head,
\* tail and every node as they were before the push.
C8_PushTailPopTail ==
    (snap.op = "pushTail" /\ snap.popped /\ pc # "popTail") =>
        /\ pc = "idle"
        /\ fault = "none"
        /\ ret = Returned("popTail", <<snap.val>>)
        /\ head = snap.head
        /\ tail = snap.tail
        /\ heap = snap.heap

\* C9: pushHead(x) followed at once by popHead() returns x and leaves head,
\* tail and every node, and so the elements, the length and the emptiness,
\* as they were before the push.
C9_PushHeadPopHead ==
    (snap.op = "pushHead" /\ snap.popped) =>
        /\ pc = "idle"
        /\ fault = "none"
        /\ ret = Returned("popHead", <<snap.val>>)
        /\ head = snap.head
        /\ tail = snap.tail
        /\ heap = snap.heap
        /\ isEmpty <=> (snap.head = NULL)

\* C9 witness: the pair has run on a list of two elements.
C9_Witness ==
    /\ snap.op = "pushHead"
    /\ snap.popped
    /\ Len(abs) = 2
    /\ Len(Walk(head, MaxNodes + 1)) = 2

\* C10: every step of clear() is defined, clear() returns with head and tail
\* nullptr and isEmpty() true, and on an empty list it changes nothing.
C10_Clear ==
    [][pc = "clear" =>
         /\ pc' \in {"clear", "idle"}
         /\ fault' = "none"
         /\ pc' = "idle" => (head' = NULL /\ tail' = NULL /\ isEmpty')
         /\ (head = NULL /\ tail = NULL) => UNCHANGED <<head, tail, heap>>]_vars

\* C11: after pushTail of v1..vn on the empty list getLength() returns n,
\* k <= n popTail calls return vn down to v(n-k+1), and popHead calls then
\* return v1..v(n-k) in order, then std::nullopt.
C11_Drain ==
    drain.on =>
        LET n == Len(drain.in)
            k == Len(drain.tails)
        IN  /\ pc # "crashed"
            /\ fault = "none"
            /\ (pc = "idle" /\ ret.op = "getLength" /\ k = 0 /\ drain.heads = <<>>) =>
                   ret.val = <<n>>
            /\ \A i \in 1..k : drain.tails[i] = <<drain.in[n + 1 - i]>>
            /\ IsPrefix(drain.heads, Drained(SubSeq(drain.in, 1, n - k)))

\* C12: popHead() on a list of one element returns it and leaves head and
\* tail nullptr, and a popTail() called next returns std::nullopt.
C12_SingleElement ==
    [][/\ (Callable /\ Len(abs) = 1 /\ popHead) =>
            /\ pc' = "idle"
            /\ fault' = "none"
            /\ ret' = Returned("popHead", <<abs[1]>>)
            /\ head' = NULL
            /\ tail' = NULL
       /\ (Callable /\ ret.op = "popHead" /\ ret.val # nullopt /\ abs = <<>> /\ popTail) =>
            /\ pc' = "idle"
            /\ fault' = "none"
            /\ ret' = Returned("popTail", nullopt)]_vars

\* Following next from p ends at nullptr without meeting a released node.
EndsAtNull(p) ==
    \/ p = NULL
    \/ LET w == Walk(p, MaxNodes + 1)
       IN  w # <<>> /\ heap[w[Len(w)]].next = NULL

\* Following next from p meets a node whose next is tail.
MeetsTail(p) ==
    LET w == Walk(p, MaxNodes + 1)
    IN  \E i \in 1..Len(w) : heap[w[i]].next = tail

\* C13: every loop that is running can reach its exit: getLength's and
\* clear's walk ends at nullptr, popTail's scan meets the node before tail.
\* None of the loops writes a link it has yet to follow, so a walk that
\* cannot reach the exit in one state never reaches it.
C13_LoopsExit ==
    /\ pc = "getLength" => EndsAtNull(node)
    /\ pc \in {"clear", "~LinkedList"} => EndsAtNull(head)
    /\ pc = "popTail" => MeetsTail(node)

\* C13 as a liveness property of FairSpec: a call whose loop is running
\* returns.
C13_Terminates ==
    (pc \in {"popTail", "getLength", "clear", "~LinkedList"}) ~>
        (pc \in {"idle", "destroyed"})

\* The values read by following next from head, for at most one node more
\* than the heap can hold.
Contents ==
    LET w == Walk(head, MaxNodes + 1) IN [i \in 1..Len(w) |-> heap[w[i]].data]

\* Following next from head ends at nullptr, and the values read on the way
\* are the abstract sequence.
Refines ==
    LET w == Walk(head, MaxNodes + 1)
    IN  /\ head # NULL => (w # <<>> /\ heap[w[Len(w)]].next = NULL)
        /\ Contents = abs

\* C14: between calls the values read from head to nullptr are the abstract
\* sequence (pushHead prepends, pushTail appends, popHead removes the first,
\* popTail the last), and each pop returns the element the sequence loses.
C14_Refinement ==
    [][/\ pc' = "idle" => Refines'
       /\ (Callable /\ popHead /\ pc' = "idle") =>
            ret'.val = IF abs = <<>> THEN nullopt ELSE <<abs[1]>>
       /\ (((Callable /\ popTail) \/ pc = "popTail") /\ pc' = "idle") =>
            ret'.val = IF abs = <<>> THEN nullopt ELSE <<abs[Len(abs)]>>]_vars

\* The count getLength()'s loop reaches from head: the nodes met by
\* following next, followed as far as getLengthLoop follows them.
Counted == Len(Walk(head, MaxLength))

\* C15: pushTail(val) on an empty list makes the new node head and tail
\* with next nullptr and a length of 1; on a non-empty list it links the old
\* tail to the new node, which becomes tail with next nullptr, and leaves
\* head alone.
C15_PushTail ==
    [][\A val \in Values :
         (Callable /\ pushTail(val)) =>
            /\ pc' = "idle"
            /\ fault' = "none"
            /\ tail' \in DOMAIN heap' \ DOMAIN heap
            /\ heap'[tail'] = Node(val)
            /\ IF isEmpty
               THEN /\ head' = tail'
                    /\ Counted' = 1
               ELSE /\ head' = head
                    /\ tail \in DOMAIN heap
                    /\ heap'[tail].next = tail']_vars

\* The nodes that following next from head meets.
Reachable == LET w == Walk(head, MaxLength) IN {w[i] : i \in 1..Len(w)}

\* C16: getLength() returns the number of nodes reachable from head; a
\* pushHead or pushTail raises that count by one; a popHead or popTail
\* lowers it by one on a non-empty list and leaves it 0 on an empty one.
C16_Length ==
    [][/\ (((Callable /\ getLength) \/ pc = "getLength") /\ pc' = "idle") =>
            /\ fault' = "none"
            /\ ret'.val = <<Cardinality(Reachable)>>
       /\ (Callable /\ \E val \in Values : pushHead(val) \/ pushTail(val)) =>
            Counted' = Counted + 1
       /\ (((Callable /\ (popHead \/ popTail)) \/ pc = "popTail") /\ pc' = "idle") =>
            Counted' = IF isEmpty THEN 0 ELSE Counted - 1]_vars

\* C17: popTail() on a list of two or more elements releases the old tail
\* and nothing else, makes the node before it the tail with next nullptr,
\* and leaves head and every remaining node's value and link alone.
C17_PopTailFrame ==
    [][Len(abs) >= 2 =>
         /\ (Callable /\ popTail) => (pc' = "popTail" /\ fault' = "none")
         /\ pc = "popTail" =>
              /\ pc' \in {"popTail", "idle"}
              /\ fault' = "none"
              /\ pc' = "idle" =>
                   /\ tail \in DOMAIN heap
                   /\ DOMAIN heap' = DOMAIN heap \ {tail}
                   /\ head' = head
                   /\ tail' \in DOMAIN heap'
                   /\ heap[tail'].next = tail
                   /\ heap'[tail'].next = NULL
                   /\ \A n \in DOMAIN heap' :
                        /\ heap'[n].data = heap[n].data
                        /\ n # tail' => heap'[n].next = heap[n].next]_vars

\* C18: when pushTail is only called on a non-empty list, between calls
\* head is nullptr iff tail is, the chain from head ends at tail with next
\* nullptr, its length and getLength() are the number of elements the calls
\* left, and neither head, tail nor any link leads to a released node.
C18_NonEmptyTailInvariant ==
    /\ pc # "crashed"
    /\ fault = "none"
    /\ pc = "idle" =>
         LET w == Walk(head, MaxNodes + 1)
         IN  /\ (head = NULL) <=> (tail = NULL)
             /\ head # NULL =>
                  /\ w # <<>>
                  /\ w[Len(w)] = tail
                  /\ heap[tail].next = NULL
             /\ Len(w) = Len(abs)
             /\ ret.op = "getLength" => ret.val = <<Len(abs)>>
             /\ ~Released(head)
             /\ ~Released(tail)
             /\ \A n \in DOMAIN heap : ~Released(heap[n].next)

\* C18 witness: pushTail has been called on a list of two elements.
C18_Witness ==
    /\ pc = "idle"
    /\ snap.op = "pushTail"
    /\ ~snap.popped
    /\ snap.head # NULL
    /\ Len(abs) = 3

====
